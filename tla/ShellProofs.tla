---------------------------- MODULE ShellProofs ----------------------------
(***************************************************************************)
(* For every set of schedules, every capacity and every backlog: nobody is *)
(* told of what the snapshot does not show, and each event fires on its    *)
(* tick.                                                                   *)
(*                                                                         *)
(* Both invariants rest on what is on its way.  Wherever a batch waits -   *)
(* with the task, at the receiver, in the message being built - the plant  *)
(* has already logged its events; and a load on its way still has a run to *)
(* go to, because the one client that may post it waits for the answer.    *)
(***************************************************************************)
EXTENDS ShellProperties, FiniteSetTheorems, TLAPS

(* The batches a plant, or a message, may know of. *)
Told(s) == {b \in [run : Nat, first : Int, n : Nat] :
              b.run < s.run \/ (b.run = s.run /\ b.first + b.n - 1 <= s.count)}

PlantInv ==
  /\ sim = [run |-> sim.run, tick |-> sim.tick, setpoint |-> sim.setpoint, count |-> sim.count]
  /\ sim.run \in DOMAIN Schedules /\ sim.tick \in Nat /\ sim.count \in Nat

ShapeInv ==
  /\ task = [doing |-> task.doing, batch |-> task.batch]
  /\ http = [doing |-> http.doing, command |-> http.command]
  /\ receiver = [waiting |-> receiver.waiting, lost |-> receiver.lost]
  /\ push = [batches |-> push.batches, lost |-> push.lost, drained |-> push.drained]

(* The snapshot is the plant's, but for its setpoint. *)
SnapshotInv ==
  /\ snapshot.sim.run = sim.run
  /\ snapshot.sim.tick = sim.tick
  /\ snapshot.sim.count = sim.count
  /\ snapshot.fired = status

StreamInv ==
  /\ task.batch \in Told(sim) \cup {None}
  /\ receiver.waiting \in Seq(Told(sim))
  /\ push.batches \in Seq(Told(sim))
  /\ shown.batches \in Seq(Told(shown))

PlayerInv == cursor = FiredBefore(sim) /\ status = cursor

CommandSet == [kind : {"setpoint", "speed"} \cup Asking, origin : {None, 0} \cup Posted \cup DOMAIN Schedules]

(* One command at most that asks is on its way, and its client waits. *)
LoadInv ==
  /\ commands \in Seq(CommandSet)
  /\ modbus \in {None} \cup DOMAIN Schedules
  /\ http.doing = "queueing" => http.command \in CommandSet
  /\ http.doing = "queueing" /\ http.command.kind = "load" => sim.run < Len(Schedules)
  /\ task.doing = "reply" => http.doing = "waiting"
  /\ \A i \in DOMAIN commands : commands[i].kind \in Asking =>
       /\ http.doing = "waiting" /\ task.doing # "reply"
       /\ commands[i].kind = "load" => sim.run < Len(Schedules)
       /\ \A j \in DOMAIN commands : commands[j].kind \in Asking => i = j

Inv == PlantInv /\ ShapeInv /\ SnapshotInv /\ StreamInv /\ PlayerInv /\ LoadInv

-----------------------------------------------------------------------------
(* Helpers. *)

LEMMA ScheduleType ==
  ASSUME NEW r \in DOMAIN Schedules
  PROVE  /\ Schedules[r] \in Seq(Nat)
         /\ \A i \in DOMAIN Schedules[r] : Schedules[r][i] \in Nat
BY ShellAssumption

LEMMA CardinalityLE ==
  ASSUME NEW r \in DOMAIN Schedules, NEW S, NEW T,
         S \subseteq T, T \subseteq DOMAIN Schedules[r]
  PROVE  /\ Cardinality(S) \in Nat /\ Cardinality(T) \in Nat
         /\ Cardinality(S) <= Cardinality(T)
<1>1. DOMAIN Schedules[r] = 1..Len(Schedules[r]) /\ Len(Schedules[r]) \in Nat
  BY ScheduleType
<1>2. IsFiniteSet(DOMAIN Schedules[r])
  BY <1>1, FS_Interval
<1>3. IsFiniteSet(T)
  BY <1>2, FS_Subset
<1> QED
  BY <1>3, FS_Subset, FS_CardinalityType

(* What has fired when a tick is over is what was due before it. *)
LEMMA DueIsFiredBefore ==
  ASSUME NEW r \in DOMAIN Schedules, NEW t \in Nat
  PROVE  {i \in DOMAIN Schedules[r] : Schedules[r][i] < t + 1}
           = {i \in DOMAIN Schedules[r] : Schedules[r][i] <= t}
BY ScheduleType

(* Nothing has fired in a fresh plant. *)
LEMMA NothingFired ==
  ASSUME NEW r \in DOMAIN Schedules
  PROVE  FiredBefore(Fresh(r)) = 0
<1>1. {i \in DOMAIN Schedules[r] : Schedules[r][i] < 0} = {}
  BY ScheduleType
<1> QED
  BY <1>1, FS_EmptySet DEF FiredBefore, Fresh

LEMMA MaxOfTwo ==
  ASSUME NEW a \in Nat, NEW b \in Nat, a <= b
  PROVE  Max({a, b}) = b
BY DEF Max

(* A plant that has moved on knows what it knew. *)
LEMMA ToldGrows ==
  ASSUME NEW s, NEW t, s.run \in Nat, t.run \in Nat, s.count \in Nat, t.count \in Nat,
         s.run < t.run \/ (s.run = t.run /\ s.count <= t.count)
  PROVE  /\ Told(s) \subseteq Told(t)
         /\ Seq(Told(s)) \subseteq Seq(Told(t))
<1>1. Told(s) \subseteq Told(t)
  BY DEF Told
<1> QED
  BY <1>1

LEMMA AppendTail ==
  ASSUME NEW S, NEW q \in Seq(S), NEW e \in S
  PROVE  Append(q, e) \in Seq(S) /\ Tail(Append(q, e)) \in Seq(S)
<1>1. Append(q, e) \in Seq(S) /\ Len(Append(q, e)) = Len(q) + 1 /\ Len(q) \in Nat
  OBVIOUS
<1>2. Append(q, e) # << >>
  BY <1>1
<1> QED
  BY <1>1, <1>2

LEMMA HeadTail ==
  ASSUME NEW S, NEW q \in Seq(S), q # << >>
  PROVE  /\ Head(q) = q[1] /\ Head(q) \in S /\ 1 \in DOMAIN q
         /\ Tail(q) \in Seq(S)
         /\ \A i \in DOMAIN Tail(q) : i + 1 \in DOMAIN q /\ Tail(q)[i] = q[i + 1]
OBVIOUS

-----------------------------------------------------------------------------
LEMMA InvInit == Init => Inv
<1> SUFFICES ASSUME Init PROVE Inv
  OBVIOUS
<1> USE DEF Init
<1>1. 1 \in DOMAIN Schedules
  BY ShellAssumption
<1>2. PlantInv /\ ShapeInv
  BY <1>1 DEF PlantInv, ShapeInv, Fresh, Idle, Blank
<1>3. SnapshotInv
  BY DEF SnapshotInv, View
<1>4. StreamInv
  BY DEF StreamInv, Idle, Blank
<1>5. PlayerInv
  BY <1>1, NothingFired DEF PlayerInv
<1>6. LoadInv
  BY DEF LoadInv, Idle
<1> QED
  BY <1>2, <1>3, <1>4, <1>5, <1>6 DEF Inv

(* The plant, its snapshot and its player rest together. *)
LEMMA TaskRests ==
  ASSUME Inv, UNCHANGED <<plant, snapshot>>
  PROVE  PlantInv' /\ SnapshotInv' /\ PlayerInv' /\ Told(sim') = Told(sim)
BY DEF Inv, PlantInv, SnapshotInv, PlayerInv, FiredBefore, Told, plant

(* What a broadcast leaves with the stream, whoever listens. *)
LEMMA ReceivedIsTold ==
  ASSUME Inv, NEW b \in Told(sim)
  PROVE  /\ Received(b) = [waiting |-> Received(b).waiting, lost |-> Received(b).lost]
         /\ Received(b).waiting \in Seq(Told(sim))
<1>1. receiver.waiting \in Seq(Told(sim))
  BY DEF Inv, StreamInv
<1>2. /\ Append(receiver.waiting, b) \in Seq(Told(sim))
      /\ Tail(Append(receiver.waiting, b)) \in Seq(Told(sim))
  BY <1>1, AppendTail
<1>3. receiver = [waiting |-> receiver.waiting, lost |-> receiver.lost]
  BY DEF Inv, ShapeInv
<1> QED
  BY <1>1, <1>2, <1>3 DEF Received

(* A write of the Modbus session asks for a setpoint and nothing else. *)
LEMMA WriteKeepsLoad ==
  ASSUME Inv, NEW o \in {None, 0} \cup DOMAIN Schedules, TrySend(SetSetpoint(o)),
         modbus' \in {None} \cup DOMAIN Schedules, UNCHANGED <<sim, task, http>>
  PROVE  LoadInv'
<1> DEFINE c == SetSetpoint(o)
<1>1. c \in CommandSet /\ c.kind \notin Asking
  BY DEF SetSetpoint, CommandSet, Asking
<1>2. commands \in Seq(CommandSet)
  BY DEF Inv, LoadInv
<1>3. CASE commands' = commands
  BY <1>3 DEF Inv, LoadInv
<1>4. CASE commands' = Append(commands, c)
  <2>1. commands' \in Seq(CommandSet)
    BY <1>1, <1>2, <1>4
  <2>2. \A i \in DOMAIN commands' :
          commands'[i].kind \in Asking => i \in DOMAIN commands /\ commands'[i] = commands[i]
    BY <1>1, <1>2, <1>4
  <2> QED
    BY <2>1, <2>2 DEF Inv, LoadInv
<1> QED
  BY <1>3, <1>4 DEF TrySend

-----------------------------------------------------------------------------
(* Each step keeps the invariant. *)

LEMMA ApplySetpointKeeps == Inv /\ Command /\ (ApplySetpoint \/ ApplySpeed) => Inv'
<1> SUFFICES ASSUME Inv, Command, ApplySetpoint \/ ApplySpeed PROVE Inv'
  OBVIOUS
<1> USE DEF Inv, Command, ApplySetpoint, ApplySpeed
<1>1. PlantInv' /\ sim'.run = sim.run /\ sim'.tick = sim.tick /\ sim'.count = sim.count
  BY DEF PlantInv
<1>2. ShapeInv'
  BY DEF ShapeInv, stream
<1>3. SnapshotInv'
  BY <1>1 DEF SnapshotInv
<1>4. Told(sim') = Told(sim)
  BY <1>1 DEF Told
<1>5. StreamInv'
  BY <1>4 DEF StreamInv, stream
<1>6. PlayerInv'
  BY <1>1 DEF PlayerInv, FiredBefore
<1>7. commands \in Seq(CommandSet) /\ commands # << >>
  BY DEF LoadInv
<1>8. /\ Tail(commands) \in Seq(CommandSet)
      /\ \A i \in DOMAIN Tail(commands) :
           i + 1 \in DOMAIN commands /\ Tail(commands)[i] = commands[i + 1]
  BY <1>7, HeadTail
<1>9. DOMAIN Tail(commands) \subseteq Int
  BY <1>8
<1>10. LoadInv'
  BY <1>1, <1>8, <1>9 DEF LoadInv
<1> QED
  BY <1>1, <1>2, <1>3, <1>5, <1>6, <1>10

(* What is left in the channel when a command that asks is taken. *)
LEMMA AskingIsTaken ==
  ASSUME Inv, Command, Head(commands).kind \in Asking
  PROVE  /\ commands' \in Seq(CommandSet)
         /\ \A i \in DOMAIN commands' : commands'[i].kind \notin Asking
         /\ http.doing = "waiting"
         /\ Head(commands).kind = "load" => sim.run < Len(Schedules)
<1> USE DEF Inv, Command
<1>1. commands \in Seq(CommandSet) /\ commands # << >>
  BY DEF LoadInv
<1>2. /\ Head(commands) = commands[1] /\ 1 \in DOMAIN commands
      /\ Tail(commands) \in Seq(CommandSet)
      /\ \A i \in DOMAIN Tail(commands) :
           i + 1 \in DOMAIN commands /\ Tail(commands)[i] = commands[i + 1]
  BY <1>1, HeadTail
<1>3. http.doing = "waiting" /\ (Head(commands).kind = "load" => sim.run < Len(Schedules))
  BY <1>2 DEF LoadInv
<1>4. \A i \in DOMAIN Tail(commands) : commands'[i].kind \notin Asking
  <2> SUFFICES ASSUME NEW i \in DOMAIN Tail(commands), commands'[i].kind \in Asking PROVE FALSE
    OBVIOUS
  <2>1. i \in Nat /\ i # 0
    BY <1>2
  <2>2. i + 1 = 1
    BY <1>2 DEF LoadInv
  <2> QED
    BY <2>1, <2>2
<1> QED
  BY <1>2, <1>3, <1>4

LEMMA ApplyResetKeeps == Inv /\ Command /\ ApplyReset => Inv'
<1> SUFFICES ASSUME Inv, Command, ApplyReset PROVE Inv'
  OBVIOUS
<1>1. /\ commands' \in Seq(CommandSet)
      /\ \A i \in DOMAIN commands' : commands'[i].kind \notin Asking
      /\ http.doing = "waiting"
  BY AskingIsTaken DEF ApplyReset, Asking
<1>2. PlantInv' /\ SnapshotInv' /\ PlayerInv' /\ Told(sim') = Told(sim)
  BY TaskRests DEF ApplyReset, plant
<1>3. ShapeInv' /\ StreamInv'
  BY <1>2 DEF Inv, ShapeInv, StreamInv, Command, ApplyReset, stream
<1>4. LoadInv'
  BY <1>1 DEF Inv, LoadInv, Command, ApplyReset
<1> QED
  BY <1>2, <1>3, <1>4 DEF Inv

LEMMA ApplyLoadKeeps == Inv /\ Command /\ ApplyLoad => Inv'
<1> SUFFICES ASSUME Inv, Command, ApplyLoad PROVE Inv'
  OBVIOUS
<1>1. /\ commands' \in Seq(CommandSet)
      /\ \A i \in DOMAIN commands' : commands'[i].kind \notin Asking
      /\ http.doing = "waiting" /\ sim.run < Len(Schedules)
  BY AskingIsTaken DEF ApplyLoad, Asking
<1> USE DEF Inv, Command, ApplyLoad
<1>5. sim.run \in DOMAIN Schedules /\ sim.run \in Nat /\ sim.count \in Nat
  BY ShellAssumption DEF PlantInv
<1>6. sim.run + 1 \in DOMAIN Schedules
  BY <1>1, <1>5, ShellAssumption
<1>7. sim' = Fresh(sim.run + 1) /\ cursor' = 0 /\ status' = 0 /\ snapshot' = View(sim', status')
  BY DEF Reload, LoadSends
<1>8. PlantInv'
  BY <1>6, <1>7 DEF PlantInv, Fresh
<1>9. ShapeInv'
  BY DEF ShapeInv, stream
<1>10. SnapshotInv'
  BY <1>7 DEF SnapshotInv, View
<1>11. Seq(Told(sim)) \subseteq Seq(Told(sim')) /\ Told(sim) \subseteq Told(sim')
  <2>1. /\ sim'.run = sim.run + 1 /\ sim'.count = 0
        /\ sim'.run \in Nat /\ sim'.count \in Nat /\ sim.run < sim'.run
    BY <1>5, <1>7 DEF Fresh
  <2> QED
    BY <1>5, <2>1, ToldGrows
<1>12. StreamInv'
  BY <1>11 DEF StreamInv, ShapeInv, stream
<1>13. PlayerInv'
  BY <1>6, <1>7, NothingFired DEF PlayerInv
<1>14. LoadInv'
  BY <1>1 DEF LoadInv
<1> QED
  BY <1>8, <1>9, <1>10, <1>12, <1>13, <1>14

LEMMA StepKeeps == Inv /\ Step => Inv'
<1> SUFFICES ASSUME Inv, Step PROVE Inv'
  OBVIOUS
<1> USE DEF Inv
<1>1. PICK n \in 0..MaxEvents :
        /\ sim' = [sim EXCEPT !.tick = @ + 1, !.count = @ + n]
        /\ LET batch == IF n = 0 THEN None ELSE Batch(sim', n)
           IN  /\ Publish("step", View(sim', status'), batch)
               /\ task' = [doing |-> "broadcast", batch |-> batch]
  BY DEF Step
<1>2. n \in Nat /\ (n = 0 \/ n > 0)
  BY ShellAssumption
<1>3. sim.run \in DOMAIN Schedules /\ sim.run \in Nat /\ sim.tick \in Nat /\ sim.count \in Nat
  BY ShellAssumption DEF PlantInv
<1>4. /\ sim' = [run |-> sim.run, tick |-> sim.tick + 1, setpoint |-> sim.setpoint,
                count |-> sim.count + n]
      /\ sim'.run = sim.run /\ sim'.tick = sim.tick + 1 /\ sim'.count = sim.count + n
  BY <1>1 DEF PlantInv
<1>5. PlantInv'
  BY <1>2, <1>3, <1>4 DEF PlantInv
<1>6. snapshot' = View(sim', status') /\ UNCHANGED receiver
  BY <1>1 DEF Publish
<1>7. ShapeInv'
  BY <1>1, <1>6 DEF ShapeInv, Step
<1>8. SnapshotInv'
  BY <1>6 DEF SnapshotInv, View
<1>9. Told(sim) \subseteq Told(sim') /\ Seq(Told(sim)) \subseteq Seq(Told(sim'))
  BY <1>2, <1>3, <1>4, ToldGrows
<1>10. task'.batch \in Told(sim') \cup {None}
  <2>1. CASE n = 0
    BY <1>1, <2>1
  <2>2. CASE n > 0
    BY <1>1, <1>2, <1>3, <1>4, <2>2 DEF Told, Batch
  <2> QED
    BY <1>2, <2>1, <2>2
<1>11. StreamInv'
  BY <1>6, <1>9, <1>10 DEF StreamInv, Step
<1>12. cursor' = DueBy(sim.tick) /\ status' = cursor'
  <2>1. /\ cursor \in Nat /\ DueBy(sim.tick) \in Nat
        /\ cursor <= DueBy(sim.tick)
    <3> DEFINE S == {i \in DOMAIN Schedules[sim.run] : Schedules[sim.run][i] < sim.tick}
               T == {i \in DOMAIN Schedules[sim.run] : Schedules[sim.run][i] <= sim.tick}
    <3>1. S \subseteq T
      BY <1>3, ScheduleType
    <3>2. cursor = Cardinality(S) /\ DueBy(sim.tick) = Cardinality(T)
      BY DEF PlayerInv, FiredBefore, DueBy
    <3> QED
      BY <1>3, <3>1, <3>2, CardinalityLE
  <2>2. cursor' = DueBy(sim.tick)
    BY <2>1, MaxOfTwo DEF Step
  <2> QED
    BY <2>2 DEF Step, PlayerInv
<1>13. PlayerInv'
  BY <1>3, <1>4, <1>12, DueIsFiredBefore DEF PlayerInv, FiredBefore, DueBy
<1>14. LoadInv'
  BY <1>1, <1>4 DEF LoadInv, Step
<1> QED
  BY <1>5, <1>7, <1>8, <1>11, <1>13, <1>14

LEMMA BroadcastKeeps == Inv /\ Broadcast => Inv'
<1> SUFFICES ASSUME Inv, Broadcast PROVE Inv'
  OBVIOUS
<1> USE DEF Inv, Broadcast
<1>1. SendBatch(task.batch) /\ UNCHANGED snapshot
  BY DEF Publish
<1>2. /\ receiver' = [waiting |-> receiver'.waiting, lost |-> receiver'.lost]
      /\ receiver'.waiting \in Seq(Told(sim))
  <2>1. CASE task.batch = None
    BY <1>1, <2>1 DEF SendBatch, ShapeInv, StreamInv
  <2>2. CASE task.batch # None
    BY <1>1, <2>2, ReceivedIsTold DEF SendBatch, StreamInv
  <2> QED
    BY <2>1, <2>2
<1>3. PlantInv' /\ PlayerInv'
  BY DEF PlantInv, PlayerInv, FiredBefore, plant
<1>4. ShapeInv' /\ SnapshotInv'
  BY <1>1, <1>2 DEF ShapeInv, SnapshotInv, Idle, plant
<1>5. StreamInv'
  BY <1>2 DEF StreamInv, Idle, Told, plant
<1>6. LoadInv'
  BY DEF LoadInv, Idle, plant
<1> QED
  BY <1>3, <1>4, <1>5, <1>6

LEMMA ReplyKeeps == Inv /\ Reply => Inv'
<1> SUFFICES ASSUME Inv, Reply PROVE Inv'
  OBVIOUS
<1> USE DEF Reply
<1>1. PlantInv' /\ SnapshotInv' /\ PlayerInv' /\ Told(sim') = Told(sim)
  BY TaskRests
<1>2. ShapeInv'
  BY DEF Inv, ShapeInv, Idle, stream
<1>3. StreamInv'
  BY <1>1 DEF Inv, StreamInv, Idle, stream
<1>4. http'.doing = "answered"
  BY DEF Inv, ShapeInv
<1>5. LoadInv'
  BY <1>4 DEF Inv, LoadInv, Idle, plant
<1> QED
  BY <1>1, <1>2, <1>3, <1>5 DEF Inv

LEMMA ModbusKeeps == Inv /\ (WriteRegisters \/ ReadSetpoint \/ WriteMode) => Inv'
<1> SUFFICES ASSUME Inv, WriteRegisters \/ ReadSetpoint \/ WriteMode PROVE Inv'
  OBVIOUS
<1>1. UNCHANGED <<clients, plant, snapshot, task, http, stream>>
  BY DEF WriteRegisters, ReadSetpoint, WriteMode
<1>2. PlantInv' /\ SnapshotInv' /\ PlayerInv' /\ Told(sim') = Told(sim)
  BY <1>1, TaskRests
<1>3. ShapeInv' /\ StreamInv'
  BY <1>1, <1>2 DEF Inv, ShapeInv, StreamInv, stream
<1>4. LoadInv'
  <2>1. CASE WriteRegisters
    <3>1. PICK o \in {0, None} : TrySend(SetSetpoint(o))
      BY <2>1 DEF WriteRegisters
    <3> QED
      BY <1>1, <2>1, <3>1, WriteKeepsLoad DEF WriteRegisters, plant, Inv, LoadInv
  <2>2. CASE ReadSetpoint
    <3>1. modbus' \in DOMAIN Schedules
      BY <2>2 DEF ReadSetpoint, Inv, SnapshotInv, PlantInv
    <3> QED
      BY <1>1, <2>2, <3>1 DEF ReadSetpoint, plant, Inv, LoadInv
  <2>3. CASE WriteMode
    <3>1. modbus \in DOMAIN Schedules /\ TrySend(SetSetpoint(modbus)) /\ modbus' = None
      BY <2>3 DEF WriteMode, Inv, LoadInv
    <3> QED
      BY <1>1, <3>1, WriteKeepsLoad DEF plant
  <2> QED
    BY <2>1, <2>2, <2>3
<1> QED
  BY <1>2, <1>3, <1>4 DEF Inv

LEMMA PostKeeps == Inv /\ (Post \/ Answered) => Inv'
<1> SUFFICES ASSUME Inv, Post \/ Answered PROVE Inv'
  OBVIOUS
<1>1. UNCHANGED <<clients, plant, commands, snapshot, task, modbus, stream>>
  BY DEF Post, Answered
<1>2. PlantInv' /\ SnapshotInv' /\ PlayerInv' /\ Told(sim') = Told(sim)
  BY <1>1, TaskRests
<1>3. StreamInv'
  BY <1>1, <1>2 DEF Inv, StreamInv, stream
<1>4. http.doing # "waiting"
  BY DEF Post, Answered
<1>5. /\ http' = [doing |-> http'.doing, command |-> http'.command]
      /\ http'.doing = "queueing" =>
           /\ http'.command \in CommandSet
           /\ http'.command.kind = "load" => sim.run < Len(Schedules)
  <2>1. CASE Post
    <3>1. PICK c \in {SetSetpoint(o) : o \in Posted}
                       \cup {SetSpeed, ResetAlarms}
                       \cup (IF sim.run < Len(Schedules) THEN {Load} ELSE {}) :
            http' = [doing |-> "queueing", command |-> c]
      BY <2>1 DEF Post
    <3> QED
      BY <3>1 DEF CommandSet, SetSetpoint, SetSpeed, ResetAlarms, Load, Asking
  <2>2. CASE Answered
    BY <2>2 DEF Answered
  <2> QED
    BY <2>1, <2>2
<1>6. ShapeInv'
  BY <1>1, <1>5 DEF Inv, ShapeInv, stream
<1>7. LoadInv'
  BY <1>1, <1>4, <1>5 DEF Inv, LoadInv, plant
<1> QED
  BY <1>2, <1>3, <1>6, <1>7 DEF Inv

LEMMA QueueKeeps == Inv /\ Queue => Inv'
<1> SUFFICES ASSUME Inv, Queue PROVE Inv'
  OBVIOUS
<1> USE DEF Queue
<1>1. PlantInv' /\ SnapshotInv' /\ PlayerInv' /\ Told(sim') = Told(sim)
  BY TaskRests
<1>2. ShapeInv' /\ StreamInv'
  BY <1>1 DEF Inv, ShapeInv, StreamInv, stream
<1>3. http.command \in CommandSet /\ commands \in Seq(CommandSet)
  BY DEF Inv, LoadInv
<1>4. /\ commands' \in Seq(CommandSet)
      /\ \A i \in DOMAIN commands' :
           \/ i \in DOMAIN commands /\ commands'[i] = commands[i]
           \/ i = Len(commands) + 1 /\ commands'[i] = http.command
  BY <1>3
<1>5. task.doing # "reply" /\ \A i \in DOMAIN commands : commands[i].kind \notin Asking
  BY DEF Inv, LoadInv
<1>6. /\ http.command.kind \in Asking => http'.doing = "waiting"
      /\ http'.doing # "queueing"
  BY DEF Inv, ShapeInv
<1>7. LoadInv'
  BY <1>4, <1>5, <1>6 DEF Inv, LoadInv, plant
<1> QED
  BY <1>1, <1>2, <1>7 DEF Inv

LEMMA ReceiveKeeps == Inv /\ TryRecv => Inv'
<1> SUFFICES ASSUME Inv, TryRecv PROVE Inv'
  OBVIOUS
<1> USE DEF TryRecv
<1>1. PlantInv' /\ SnapshotInv' /\ PlayerInv' /\ Told(sim') = Told(sim)
  BY TaskRests
<1>2. receiver.waiting \in Seq(Told(sim)) /\ push.batches \in Seq(Told(sim))
  BY DEF Inv, StreamInv
<1>3. receiver.waiting # << >> =>
        /\ Tail(receiver.waiting) \in Seq(Told(sim))
        /\ Append(push.batches, Head(receiver.waiting)) \in Seq(Told(sim))
  BY <1>2, HeadTail
<1>4. ShapeInv'
  BY DEF Inv, ShapeInv
<1>5. receiver'.waiting \in Seq(Told(sim)) /\ push'.batches \in Seq(Told(sim))
  BY <1>2, <1>3 DEF Inv, ShapeInv
<1>6. StreamInv'
  BY <1>1, <1>5 DEF Inv, StreamInv
<1>7. LoadInv'
  BY DEF Inv, LoadInv, plant
<1> QED
  BY <1>1, <1>4, <1>6, <1>7 DEF Inv

LEMMA PushKeeps == Inv /\ Push => Inv'
<1> SUFFICES ASSUME Inv, Push PROVE Inv'
  OBVIOUS
<1> USE DEF Push
<1>1. PlantInv' /\ SnapshotInv' /\ PlayerInv' /\ Told(sim') = Told(sim)
  BY TaskRests
<1>2. ShapeInv'
  BY DEF Inv, ShapeInv, Blank
<1>3. /\ shown'.batches = push.batches /\ shown'.run = sim.run /\ shown'.count = sim.count
  BY DEF Inv, SnapshotInv, StreamMessage
<1>4. Told(shown') = Told(sim)
  BY <1>3 DEF Told
<1>5. StreamInv'
  BY <1>1, <1>3, <1>4 DEF Inv, StreamInv, Blank
<1>6. LoadInv'
  BY DEF Inv, LoadInv, plant
<1> QED
  BY <1>1, <1>2, <1>5, <1>6 DEF Inv

LEMMA InvNext == Inv /\ [Next]_vars => Inv'
<1> SUFFICES ASSUME Inv, [Next]_vars PROVE Inv'
  OBVIOUS
<1>1. CASE Command
  BY <1>1, ApplySetpointKeeps, ApplyResetKeeps, ApplyLoadKeeps DEF Command
<1>2. CASE Step \/ Broadcast \/ Reply
  BY <1>2, StepKeeps, BroadcastKeeps, ReplyKeeps
<1>3. CASE WriteRegisters \/ ReadSetpoint \/ WriteMode
  BY <1>3, ModbusKeeps
<1>4. CASE Post \/ Queue \/ Answered
  BY <1>4, PostKeeps, QueueKeeps
<1>5. CASE TryRecv \/ Push
  BY <1>5, ReceiveKeeps, PushKeeps
<1>6. CASE UNCHANGED vars
  <2>1. PlantInv' /\ SnapshotInv' /\ PlayerInv' /\ Told(sim') = Told(sim)
    BY <1>6, TaskRests DEF vars
  <2> QED
    BY <1>6, <2>1 DEF Inv, ShapeInv, StreamInv, LoadInv, vars, plant, stream
<1> QED
  BY <1>1, <1>2, <1>3, <1>4, <1>5, <1>6 DEF Next

LEMMA InvHolds == Spec => []Inv
BY InvInit, InvNext, PTL DEF Spec

-----------------------------------------------------------------------------
(* The numbers of the stream.  What the stream has been told, the batches  *)
(* of the message being built, those that wait at the receiver and the one *)
(* the task still holds form one line, each following the one before, and  *)
(* the line ends at the plant; a loss may break it in one place only,      *)
(* before the first batch that waits.                                      *)

EndOf(last, batches) ==
  IF batches = << >> THEN last ELSE End(batches[Len(batches)])
Linked(batches) ==
  \A i \in DOMAIN batches : i > 1 => Follows(End(batches[i - 1]), batches[i])

Collected == EndOf(shown.upto, push.batches)
OnItsWay == EndOf(Collected, receiver.waiting)

(* Nothing lies between a position of the stream and a plant. *)
UpToDate(last, s) ==
  \/ last.run = s.run /\ last.seq = s.count
  \/ last.run < s.run /\ s.count = 0

Positions == [run : Nat, seq : Int]

LineInv ==
  /\ shown.upto \in Positions
  /\ receiver.lost \in Nat /\ push.lost \in Nat
  /\ push.lost = 0 => /\ Linked(push.batches)
                      /\ push.batches # << >> => Follows(shown.upto, push.batches[1])
  /\ Linked(receiver.waiting)
  /\ receiver.lost > 0 => receiver.waiting # << >>
  /\ receiver.waiting # << >> /\ receiver.lost = 0 /\ (push.lost = 0 \/ push.drained) =>
       Follows(Collected, receiver.waiting[1])
  /\ IF task.doing = "broadcast" /\ task.batch # None
     THEN Follows(OnItsWay, task.batch) /\ End(task.batch) = [run |-> sim.run, seq |-> sim.count]
     ELSE UpToDate(OnItsWay, sim)

(* Without a stream there is no line, and no message either.               *)
NumbersInv == IF "stream" \in clients THEN LineInv ELSE ~push.drained

Batches == [run : Nat, first : Int, n : Nat]

LEMMA BatchesOnTheirWay ==
  ASSUME Inv
  PROVE  /\ receiver.waiting \in Seq(Batches) /\ push.batches \in Seq(Batches)
         /\ task.batch \in Batches \cup {None}
         /\ sim.run \in Nat /\ sim.count \in Nat
<1>1. Told(sim) \subseteq Batches
  BY DEF Told, Batches
<1>2. Seq(Told(sim)) \subseteq Seq(Batches)
  BY <1>1
<1>3. sim.run \in Nat
  BY ShellAssumption DEF Inv, PlantInv
<1> QED
  BY <1>1, <1>2, <1>3 DEF Inv, StreamInv, PlantInv

LEMMA EndIsPosition ==
  /\ \A b \in Batches : End(b) \in Positions
  /\ \A p \in Positions, q \in Seq(Batches) : EndOf(p, q) \in Positions
<1>1. \A b \in Batches : End(b) \in Positions
  BY DEF Batches, End, Positions
<1> QED
  BY <1>1 DEF EndOf

(* A batch added to a line.                                                *)
LEMMA LineGrows ==
  ASSUME NEW last, NEW q \in Seq(Batches), NEW b \in Batches
  PROVE  LET longer == Append(q, b)
         IN  /\ longer \in Seq(Batches) /\ longer # << >>
             /\ EndOf(last, longer) = End(b)
             /\ longer[1] = IF q = << >> THEN b ELSE q[1]
             /\ Linked(q) /\ Follows(EndOf(last, q), b) => Linked(longer)
<1> DEFINE longer == Append(q, b)
<1>1. /\ longer \in Seq(Batches) /\ Len(longer) = Len(q) + 1 /\ Len(q) \in Nat
      /\ longer[Len(q) + 1] = b
      /\ \A i \in 1..Len(q) : longer[i] = q[i]
      /\ DOMAIN q = 1..Len(q) /\ DOMAIN longer = 1..(Len(q) + 1)
  OBVIOUS
<1>2. longer # << >> /\ EndOf(last, longer) = End(b)
  BY <1>1 DEF EndOf
<1>3. longer[1] = IF q = << >> THEN b ELSE q[1]
  BY <1>1
<1>4. ASSUME Linked(q), Follows(EndOf(last, q), b) PROVE Linked(longer)
  <2> SUFFICES ASSUME NEW i \in DOMAIN longer, i > 1
               PROVE  Follows(End(longer[i - 1]), longer[i])
    BY DEF Linked
  <2> HIDE DEF longer
  <2>1. CASE i <= Len(q)
    <3>1. i \in DOMAIN q /\ i - 1 \in 1..Len(q)
      BY <1>1, <2>1
    <3> QED
      BY <1>1, <1>4, <3>1 DEF Linked
  <2>2. CASE i = Len(q) + 1
    <3>1. q # << >> /\ i - 1 = Len(q) /\ Len(q) \in 1..Len(q)
      BY <1>1, <2>2
    <3> QED
      BY <1>1, <1>4, <2>2, <3>1 DEF EndOf
  <2> QED
    BY <1>1, <2>1, <2>2
<1> QED
  BY <1>1, <1>2, <1>3, <1>4

(* A batch taken from the front of a line.                                 *)
LEMMA LineShrinks ==
  ASSUME NEW q \in Seq(Batches), q # << >>, Linked(q), NEW last
  PROVE  /\ Tail(q) \in Seq(Batches) /\ Linked(Tail(q))
         /\ Head(q) = q[1] /\ Head(q) \in Batches
         /\ EndOf(End(Head(q)), Tail(q)) = EndOf(last, q)
         /\ Tail(q) # << >> => Follows(End(Head(q)), Tail(q)[1])
<1>1. /\ Len(q) \in Nat \ {0} /\ DOMAIN q = 1..Len(q)
      /\ Tail(q) \in Seq(Batches) /\ Len(Tail(q)) = Len(q) - 1
      /\ DOMAIN Tail(q) = 1..(Len(q) - 1)
      /\ \A i \in 1..(Len(q) - 1) : Tail(q)[i] = q[i + 1]
      /\ Head(q) = q[1] /\ Head(q) \in Batches
  OBVIOUS
<1>2. Linked(Tail(q))
  <2> SUFFICES ASSUME NEW i \in DOMAIN Tail(q), i > 1
               PROVE  Follows(End(Tail(q)[i - 1]), Tail(q)[i])
    BY DEF Linked
  <2>1. i \in 1..(Len(q) - 1) /\ i - 1 \in 1..(Len(q) - 1) /\ (i - 1) + 1 = i
    BY <1>1
  <2>2. Tail(q)[i] = q[i + 1] /\ Tail(q)[i - 1] = q[i]
    BY <1>1, <2>1
  <2>3. i + 1 \in DOMAIN q /\ i + 1 > 1 /\ (i + 1) - 1 = i
    BY <1>1, <2>1
  <2> QED
    BY <2>2, <2>3 DEF Linked
<1>3. CASE Len(q) = 1
  <2>1. Tail(q) = << >>
    BY <1>1, <1>3
  <2> QED
    BY <1>1, <1>2, <1>3, <2>1 DEF EndOf
<1>4. CASE Len(q) > 1
  <2> DEFINE t == Tail(q)
  <2>0. Len(t) = Len(q) - 1 /\ t \in Seq(Batches)
    BY <1>1
  <2> HIDE DEF t
  <2>1. /\ t # << >> /\ Len(t) \in 1..(Len(q) - 1) /\ 1 \in 1..(Len(q) - 1)
        /\ Len(t) + 1 = Len(q)
    BY <1>1, <1>4, <2>0
  <2> USE DEF t
  <2>2. Tail(q)[Len(Tail(q))] = q[Len(q)] /\ Tail(q)[1] = q[2]
    BY <1>1, <2>1
  <2>3. EndOf(End(Head(q)), Tail(q)) = EndOf(last, q)
    BY <2>1, <2>2 DEF EndOf
  <2>4. 2 \in DOMAIN q /\ 2 > 1 /\ 2 - 1 = 1
    BY <1>1, <1>4
  <2>5. Follows(End(q[1]), q[2])
    BY <2>4 DEF Linked
  <2> QED
    BY <1>1, <1>2, <2>2, <2>3, <2>5
<1> QED
  BY <1>1, <1>3, <1>4

(* The next batch of a plant follows what is up to date with it.           *)
LEMMA NextBatchFollows ==
  ASSUME NEW last \in Positions, NEW s, NEW t, NEW n \in Nat,
         s.run \in Nat, s.count \in Nat, UpToDate(last, s),
         t.run = s.run, t.count = s.count + n
  PROVE  /\ Follows(last, Batch(t, n))
         /\ End(Batch(t, n)) = [run |-> t.run, seq |-> t.count]
BY DEF UpToDate, Follows, Batch, End, Positions

LEMMA NumbersInit == Init => NumbersInv
<1> SUFFICES ASSUME Init PROVE NumbersInv
  OBVIOUS
<1> USE DEF Init, Blank
<1>1. Linked(<< >>)
  BY DEF Linked
<1>2. OnItsWay = [run |-> 1, seq |-> 0]
  BY DEF OnItsWay, Collected, EndOf
<1>3. UpToDate(OnItsWay, sim)
  BY <1>2 DEF UpToDate, Fresh
<1>4. LineInv
  BY <1>1, <1>3 DEF LineInv, Positions, Idle
<1> QED
  BY <1>4 DEF NumbersInv

(* What no surface but the stream does leaves the line alone.              *)
LEMMA LineRests ==
  ASSUME NumbersInv, UNCHANGED <<clients, stream>>,
         LineInv =>
           IF task'.doing = "broadcast" /\ task'.batch # None
           THEN /\ Follows(OnItsWay, task'.batch)
                /\ End(task'.batch) = [run |-> sim'.run, seq |-> sim'.count]
           ELSE UpToDate(OnItsWay, sim')
  PROVE  NumbersInv'
<1>1. OnItsWay' = OnItsWay /\ Collected' = Collected
  BY DEF OnItsWay, Collected, EndOf, stream
<1>2. receiver' = receiver /\ push' = push /\ shown' = shown /\ clients' = clients
  BY DEF stream
<1>3. CASE "stream" \in clients
  <2>1. LineInv
    BY <1>3 DEF NumbersInv
  <2>2. LineInv'
    BY <1>1, <1>2, <2>1 DEF LineInv
  <2> QED
    BY <1>2, <1>3, <2>2 DEF NumbersInv
<1>4. CASE "stream" \notin clients
  BY <1>2, <1>4 DEF NumbersInv
<1> QED
  BY <1>3, <1>4

LEMMA CommandKeepsNumbers == ASSUME Inv, NumbersInv, Command PROVE NumbersInv'
<1> USE DEF Command
<1>1. task.doing = "commands" /\ UNCHANGED <<clients, stream>>
  OBVIOUS
<1>2. /\ task'.doing # "broadcast"
      /\ \/ sim'.run = sim.run /\ sim'.count = sim.count
         \/ sim'.run = sim.run + 1 /\ sim'.count = 0
  <2>1. CASE ApplySetpoint \/ ApplySpeed
    BY <2>1 DEF ApplySetpoint, ApplySpeed, Inv, PlantInv
  <2>2. CASE ApplyReset
    BY <2>2 DEF ApplyReset, Inv, ShapeInv
  <2>3. CASE ApplyLoad
    BY <2>3 DEF ApplyLoad, Reload, Fresh, Inv, ShapeInv
  <2> QED
    BY <2>1, <2>2, <2>3
<1>3. ASSUME LineInv PROVE UpToDate(OnItsWay, sim')
  <2>1. UpToDate(OnItsWay, sim) /\ OnItsWay \in Positions
    BY <1>1, <1>3, BatchesOnTheirWay, EndIsPosition DEF LineInv, OnItsWay, Collected
  <2> QED
    BY <1>2, <2>1, BatchesOnTheirWay DEF UpToDate, Positions
<1> QED
  BY <1>1, <1>2, <1>3, LineRests

LEMMA StepKeepsNumbers == ASSUME Inv, NumbersInv, Step PROVE NumbersInv'
<1>1. PICK n \in 0..MaxEvents :
        /\ sim' = [sim EXCEPT !.tick = @ + 1, !.count = @ + n]
        /\ LET batch == IF n = 0 THEN None ELSE Batch(sim', n)
           IN  /\ Publish("step", View(sim', status'), batch)
               /\ task' = [doing |-> "broadcast", batch |-> batch]
  BY DEF Step
<1>2. /\ n \in Nat /\ task.doing = "commands" /\ UNCHANGED <<clients, stream>>
      /\ sim'.run = sim.run /\ sim'.count = sim.count + n
  <2>1. sim'.run = sim.run /\ sim'.count = sim.count + n
    BY <1>1 DEF Inv, PlantInv
  <2>2. n \in Nat
    BY ShellAssumption
  <2>3. task.doing = "commands" /\ UNCHANGED <<clients, push, shown>>
    BY DEF Step
  <2>4. UNCHANGED receiver
    BY <1>1 DEF Publish
  <2> QED
    BY <2>1, <2>2, <2>3, <2>4 DEF stream
<1>3. ASSUME LineInv
      PROVE  IF task'.doing = "broadcast" /\ task'.batch # None
             THEN /\ Follows(OnItsWay, task'.batch)
                  /\ End(task'.batch) = [run |-> sim'.run, seq |-> sim'.count]
             ELSE UpToDate(OnItsWay, sim')
  <2>1. UpToDate(OnItsWay, sim) /\ OnItsWay \in Positions
    BY <1>2, <1>3, BatchesOnTheirWay, EndIsPosition DEF LineInv, OnItsWay, Collected
  <2>2. CASE n = 0
    BY <1>1, <1>2, <2>1, <2>2, BatchesOnTheirWay DEF UpToDate
  <2>3. CASE n # 0
    <3>1. task'.batch = Batch(sim', n) /\ task'.doing = "broadcast"
      BY <1>1, <2>3
    <3>2. Batch(sim', n) \in [run : Nat, first : Int, n : Nat]
      BY <1>2, BatchesOnTheirWay DEF Batch
    <3>3. task'.batch # None
      BY <3>1, <3>2, ShellAssumption
    <3> QED
      BY <1>2, <2>1, <3>1, <3>3, NextBatchFollows, BatchesOnTheirWay
  <2> QED
    BY <2>2, <2>3
<1> QED
  BY <1>2, <1>3, LineRests

LEMMA BroadcastKeepsNumbers == ASSUME Inv, NumbersInv, Broadcast PROVE NumbersInv'
<1> USE DEF Broadcast
<1>1. /\ task.doing = "broadcast" /\ task'.doing = "commands"
      /\ UNCHANGED <<clients, sim, push, shown>> /\ SendBatch(task.batch)
  BY DEF Idle, plant, Publish
<1>2. CASE task.batch = None \/ "stream" \notin clients
  <2>1. UNCHANGED stream
    BY <1>1, <1>2 DEF SendBatch, Received, stream
  <2> QED
    BY <1>1, <1>2, <2>1, LineRests DEF LineInv, NumbersInv
<1>3. CASE task.batch # None /\ "stream" \in clients
  <2> DEFINE b == task.batch
             waiting == receiver.waiting
             all == Append(waiting, b)
  <2>1. /\ waiting \in Seq(Batches) /\ push.batches \in Seq(Batches) /\ b \in Batches
        /\ sim.run \in Nat /\ sim.count \in Nat
    BY <1>3, BatchesOnTheirWay
  <2>2. LineInv
    BY <1>3 DEF NumbersInv
  <2>3. Follows(OnItsWay, b) /\ End(b) = [run |-> sim.run, seq |-> sim.count]
    BY <1>1, <1>3, <2>2 DEF LineInv
  <2>4. /\ all \in Seq(Batches) /\ all # << >> /\ Linked(all)
        /\ \A last : EndOf(last, all) = End(b)
        /\ all[1] = IF waiting = << >> THEN b ELSE waiting[1]
    BY <2>1, <2>2, <2>3, LineGrows DEF LineInv, OnItsWay
  <2>5. receiver' = IF Len(all) > EVENT_BACKLOG
                    THEN [waiting |-> Tail(all), lost |-> receiver.lost + 1]
                    ELSE [receiver EXCEPT !.waiting = all]
    BY <1>1, <1>3 DEF SendBatch, Received
  <2>6. /\ receiver'.lost \in Nat /\ Linked(receiver'.waiting)
        /\ receiver'.waiting # << >>
        /\ \A last : EndOf(last, receiver'.waiting) = End(b)
        /\ receiver'.lost = 0 => receiver.lost = 0 /\ receiver'.waiting = all
    <3> HIDE DEF all, b, waiting
    <3>1. CASE Len(all) > EVENT_BACKLOG
      <4>1. Len(all) > 1 /\ Len(Tail(all)) = Len(all) - 1 /\ Tail(all) \in Seq(Batches)
        BY <2>4, <3>1, SurfacesAssumption
      <4>2. Tail(all) # << >>
        <5> DEFINE t == Tail(all)
        <5>1. Len(t) # 0
          BY <2>4, <4>1
        <5> HIDE DEF t
        <5>2. t # << >>
          BY <5>1
        <5> QED
          BY <5>2 DEF t
      <4>3. Linked(Tail(all)) /\ EndOf(End(Head(all)), Tail(all)) = End(b)
        BY <2>4, LineShrinks
      <4>4. \A last : EndOf(last, Tail(all)) = End(b)
        BY <4>2, <4>3 DEF EndOf
      <4> QED
        BY <2>2, <2>5, <3>1, <4>2, <4>3, <4>4 DEF LineInv
    <3>2. CASE ~(Len(all) > EVENT_BACKLOG)
      <4>1. receiver' = [waiting |-> all, lost |-> receiver.lost]
        BY <2>5, <3>2 DEF Inv, ShapeInv
      <4> QED
        BY <2>2, <2>4, <4>1 DEF LineInv
    <3> QED
      BY <3>1, <3>2
  <2>7. Collected' = Collected
    BY <1>1 DEF Collected, EndOf
  <2>8. OnItsWay' = [run |-> sim'.run, seq |-> sim'.count]
    BY <1>1, <2>3, <2>6, <2>7 DEF OnItsWay
  <2>9. receiver'.lost = 0 /\ (push.lost = 0 \/ push.drained) =>
          Follows(Collected', receiver'.waiting[1])
    <3>1. CASE waiting = << >>
      BY <2>3, <2>4, <2>6, <2>7, <3>1 DEF OnItsWay, EndOf
    <3>2. CASE waiting # << >>
      BY <2>2, <2>4, <2>6, <2>7, <3>2 DEF LineInv
    <3> QED
      BY <3>1, <3>2
  <2>10. UpToDate(OnItsWay', sim')
    BY <2>8 DEF UpToDate
  <2>11. LineInv'
    BY <1>1, <2>2, <2>6, <2>9, <2>10 DEF LineInv
  <2> QED
    BY <1>1, <1>3, <2>11 DEF NumbersInv
<1> QED
  BY <1>2, <1>3

LEMMA ReceiveKeepsNumbers == ASSUME Inv, NumbersInv, TryRecv PROVE NumbersInv'
<1> USE DEF TryRecv
<1>1. /\ "stream" \in clients /\ ~push.drained
      /\ UNCHANGED <<clients, sim, task, shown>>
  BY DEF plant
<1>2. LineInv
  BY <1>1 DEF NumbersInv
<1>3. receiver.waiting \in Seq(Batches) /\ push.batches \in Seq(Batches)
  BY BatchesOnTheirWay
<1>4. CASE receiver.lost > 0
  <2>1. /\ receiver' = [waiting |-> receiver.waiting, lost |-> 0]
        /\ push' = [batches |-> push.batches, lost |-> push.lost + receiver.lost,
                    drained |-> push.drained]
    BY <1>4 DEF Inv, ShapeInv
  <2>2. push'.lost \in Nat /\ push'.lost > 0 /\ push'.batches = push.batches
    BY <1>2, <1>4, <2>1 DEF LineInv
  <2>3. Collected' = Collected /\ OnItsWay' = OnItsWay
    BY <1>1, <2>1, <2>2 DEF Collected, OnItsWay, EndOf
  <2>4. LineInv'
    BY <1>1, <1>2, <2>1, <2>2, <2>3 DEF LineInv
  <2> QED
    BY <1>1, <2>4 DEF NumbersInv
<1>5. CASE ~(receiver.lost > 0) /\ receiver.waiting # << >>
  <2> DEFINE b == Head(receiver.waiting)
  <2>1. /\ receiver' = [waiting |-> Tail(receiver.waiting), lost |-> receiver.lost]
        /\ push' = [batches |-> Append(push.batches, b), lost |-> push.lost,
                    drained |-> push.drained]
    BY <1>5 DEF Inv, ShapeInv
  <2>2. receiver.lost = 0
    BY <1>2, <1>5 DEF LineInv
  <2>3. /\ Tail(receiver.waiting) \in Seq(Batches) /\ Linked(Tail(receiver.waiting))
        /\ b = receiver.waiting[1] /\ b \in Batches
        /\ EndOf(End(b), Tail(receiver.waiting)) = OnItsWay
        /\ Tail(receiver.waiting) # << >> => Follows(End(b), Tail(receiver.waiting)[1])
    BY <1>2, <1>3, <1>5, LineShrinks DEF LineInv, OnItsWay
  <2>4. /\ push'.batches \in Seq(Batches) /\ push'.batches # << >>
        /\ EndOf(shown.upto, push'.batches) = End(b)
        /\ push'.batches[1] = IF push.batches = << >> THEN b ELSE push.batches[1]
        /\ Linked(push.batches) /\ Follows(Collected, b) => Linked(push'.batches)
    <3>1. push'.batches = Append(push.batches, b) /\ EndOf(shown.upto, push.batches) = Collected
      BY <2>1 DEF Collected
    <3> HIDE DEF b
    <3> QED
      BY <1>3, <2>3, <3>1, LineGrows
  <2>5. Collected' = End(b) /\ OnItsWay' = OnItsWay
    BY <1>1, <2>1, <2>3, <2>4 DEF Collected, OnItsWay, EndOf
  <2>6. push.lost = 0 =>
          /\ Linked(push'.batches)
          /\ Follows(shown.upto, push'.batches[1])
    <3> SUFFICES ASSUME push.lost = 0
                 PROVE  Linked(push'.batches) /\ Follows(shown.upto, push'.batches[1])
      OBVIOUS
    <3>1. Follows(Collected, b) /\ Linked(push.batches)
      BY <1>2, <1>5, <2>2, <2>3 DEF LineInv
    <3>2. Follows(shown.upto, push'.batches[1])
      BY <1>2, <2>4, <3>1 DEF LineInv, Collected, EndOf
    <3> QED
      BY <2>4, <3>1, <3>2
  <2>7. LineInv'
    BY <1>1, <1>2, <2>1, <2>2, <2>3, <2>5, <2>6 DEF LineInv
  <2> QED
    BY <1>1, <2>7 DEF NumbersInv
<1>6. CASE ~(receiver.lost > 0) /\ receiver.waiting = << >>
  <2>1. /\ receiver' = receiver
        /\ push' = [batches |-> push.batches, lost |-> push.lost, drained |-> TRUE]
    BY <1>6 DEF Inv, ShapeInv
  <2>2. Collected' = Collected /\ OnItsWay' = OnItsWay
    BY <1>1, <2>1 DEF Collected, OnItsWay, EndOf
  <2>3. LineInv'
    BY <1>1, <1>2, <1>6, <2>1, <2>2 DEF LineInv
  <2> QED
    BY <1>1, <2>3 DEF NumbersInv
<1> QED
  BY <1>4, <1>5, <1>6

LEMMA PushKeepsNumbers == ASSUME Inv, NumbersInv, Push PROVE NumbersInv'
<1> USE DEF Push
<1>1. /\ push.drained /\ UNCHANGED <<clients, sim, task, receiver>>
      /\ push' = Blank /\ shown' = StreamMessage(snapshot)
  BY DEF plant
<1>2. "stream" \in clients /\ LineInv
  BY <1>1 DEF NumbersInv
<1>3. receiver.waiting \in Seq(Batches) /\ push.batches \in Seq(Batches)
  BY BatchesOnTheirWay
<1>4. shown'.upto = Collected /\ Collected \in Positions
  BY <1>1, <1>2, <1>3, EndIsPosition
     DEF StreamMessage, Upto, Last, Collected, EndOf, End, LineInv
<1>5. Collected' = Collected /\ OnItsWay' = OnItsWay
  BY <1>1, <1>4 DEF Collected, OnItsWay, EndOf, Blank
<1>6. LineInv'
  BY <1>1, <1>2, <1>4, <1>5 DEF LineInv, Blank, Linked
<1> QED
  BY <1>1, <1>2, <1>6 DEF NumbersInv

LEMMA NumbersNext == Inv /\ NumbersInv /\ [Next]_vars => NumbersInv'
<1> SUFFICES ASSUME Inv, NumbersInv, [Next]_vars PROVE NumbersInv'
  OBVIOUS
<1>1. CASE UNCHANGED <<clients, sim, task, stream>>
  BY <1>1, LineRests DEF LineInv
<1>2. CASE WriteRegisters \/ ReadSetpoint \/ WriteMode \/ Post \/ Queue \/ Answered
  BY <1>1, <1>2 DEF WriteRegisters, ReadSetpoint, WriteMode, Post, Queue, Answered, plant
<1>3. CASE Reply
  <2>1. task.doing = "reply" /\ task'.doing = "commands" /\ UNCHANGED <<clients, sim, stream>>
    BY <1>3 DEF Reply, Idle, plant
  <2> QED
    BY <2>1, LineRests DEF LineInv
<1>4. CASE UNCHANGED vars
  BY <1>1, <1>4 DEF vars, plant, stream
<1> QED
  BY <1>2, <1>3, <1>4, CommandKeepsNumbers, StepKeepsNumbers, BroadcastKeepsNumbers,
     ReceiveKeepsNumbers, PushKeepsNumbers DEF Next

-----------------------------------------------------------------------------
(* Nobody is told of what the snapshot does not show yet: whatever the     *)
(* order of the task, the stream and the client (sim.rs publishes before   *)
(* it broadcasts, http.rs drains before it reads the snapshot).            *)
THEOREM NobodyIsAheadOfTheSnapshot == Spec => []SnapshotLeads
<1>1. Inv => SnapshotLeads
  <2> SUFFICES ASSUME Inv PROVE SnapshotLeads
    OBVIOUS
  <2>1. \A b \in ToSet(shown.batches) : b \in Told(shown)
    BY DEF Inv, StreamInv, ToSet
  <2> QED
    BY <2>1 DEF SnapshotLeads, Told, Inv, SnapshotInv
<1> QED
  BY <1>1, InvHolds, PTL

(* Each scheduled event fires once, before the tick it is scheduled at, in *)
(* whatever run a load has started, and the status of every snapshot is of *)
(* its own tick (player.rs due, sim.rs tick and load).                     *)
THEOREM EachEventFiresOnItsTick == Spec => []EachFaultOnItsTick
<1>1. Inv => EachFaultOnItsTick
  BY DEF Inv, EachFaultOnItsTick, PlayerInv, SnapshotInv, FiredBefore
<1> QED
  BY <1>1, InvHolds, PTL
-----------------------------------------------------------------------------
(* What a subscriber of the stream is shown runs on without a gap over     *)
(* messages and loads, unless the message says that batches were lost      *)
(* (http.rs push_summaries over the bounded broadcast of sim.rs).          *)
THEOREM StreamNumbersHaveNoGap == Spec => StreamNumbersRunOn
<1> DEFINE Shows ==
      shown' # shown /\ shown'.lost = 0 =>
        \A i \in DOMAIN shown'.batches :
          Follows(IF i = 1 THEN shown.upto ELSE End(shown'.batches[i - 1]), shown'.batches[i])
<1>1. Init => Inv /\ NumbersInv
  BY InvInit, NumbersInit
<1>2. Inv /\ NumbersInv /\ [Next]_vars => (Inv /\ NumbersInv)'
  BY InvNext, NumbersNext
<1>3. Inv /\ NumbersInv /\ [Next]_vars => [Shows]_vars
  <2> SUFFICES ASSUME Inv, NumbersInv, Next PROVE Shows
    OBVIOUS
  <2>1. CASE Push
    <3>1. LineInv
      BY <2>1 DEF Push, NumbersInv
    <3>2. shown'.batches = push.batches /\ shown'.lost = push.lost
      BY <2>1 DEF Push, StreamMessage
    <3>3. push.batches \in Seq(Batches)
      BY BatchesOnTheirWay
    <3> SUFFICES ASSUME push.lost = 0, NEW i \in DOMAIN push.batches
                 PROVE  Follows(IF i = 1 THEN shown.upto ELSE End(push.batches[i - 1]),
                                push.batches[i])
      BY <3>2
    <3>4. i \in Nat /\ i >= 1 /\ push.batches # << >>
      BY <3>3
    <3> QED
      BY <3>1, <3>4 DEF LineInv, Linked
  <2>2. CASE ~Push
    <3>1. shown' = shown
      BY <2>2 DEF Next, Command, Reply, Step, Broadcast, WriteRegisters, ReadSetpoint,
                  WriteMode, Post, Queue, Answered, TryRecv, stream
    <3> QED
      BY <3>1
  <2> QED
    BY <2>1, <2>2
<1> QED
  BY <1>1, <1>2, <1>3, PTL DEF Spec, StreamNumbersRunOn
=============================================================================
