------------------------------ MODULE MCSurfaces ------------------------------
(* The shell's clients and the MQTT publisher share nothing but what each of  *)
(* them receives from the simulation task, so they are explored one at a      *)
(* time: surface names the one that moves.  Where the clients move, the       *)
(* publisher has made its first wake and stands still, as does its plant.     *)
EXTENDS MCShell, MCMqtt

VARIABLE surface

allVars == <<surface, vars, mqttVars>>

SurfacesInit ==
  /\ surface \in {"shell", "mqtt"}
  /\ Init /\ MqttInit
  /\ surface = "mqtt" => clients = {"http", "stream"}

Woken == pc = "idle" /\ retained # None

Served(A) ==
  /\ surface = "shell" /\ Woken
  /\ UNCHANGED <<surface, mqttVars>>
  /\ A

(* Bound: a behaviour has a load or a new connection, not both.               *)
OneUpheaval == run' + connections' <= 2

Published(A) ==
  /\ surface = "shell" => ~Woken /\ UNCHANGED <<feed, connections, refusals>>
  /\ UNCHANGED <<surface, vars>>
  /\ A /\ OneUpheaval

SurfacesNext == Served(Next) \/ Published(MqttNext)

(* The fairness of FairSpec and of MqttFairSpec.                              *)
SurfacesSpec ==
  /\ SurfacesInit /\ [][SurfacesNext]_allVars
  /\ WF_allVars(Served(Command)) /\ WF_allVars(Served(Reply))
  /\ WF_allVars(Served(Step)) /\ WF_allVars(Served(Broadcast))
  /\ WF_allVars(Served(Queue))
  /\ WF_allVars(Served(TryRecv)) /\ WF_allVars(Served(Push))
  /\ WF_allVars(Published(Tick))
  /\ WF_allVars(Published(PublishCadence)) /\ WF_allVars(Published(PublishChanged))
  /\ SF_allVars(Published(Backfill)) /\ SF_allVars(Published(PublishEvents))
  /\ SF_allVars(Published(FallBehind))
===============================================================================
