------------------------------- MODULE MCMqtt -------------------------------
(* Instances of the MQTT publisher for TLC. *)
EXTENDS MqttProperties

Story(start, dropouts, bursts) ==
  [start |-> start, dropouts |-> dropouts, bursts |-> bursts]
Burst(index, at) == [index |-> index, at |-> at]

(* One dropout and its burst. *)
OneDropout == <<Story(0, {<<1, 2>>}, {Burst(2, 2)})>>

(* The same, then a story that names no start and keeps the one in force: a *)
(* dropout that is never replayed. *)
DropoutThenUndated == OneDropout \o <<Story(0, {<<1, 2>>}, {})>>

(* The same scenario, loaded a second time. *)
SameAgain == OneDropout \o OneDropout

(* Two stories that name no start and hold no data faults. *)
Undated == <<Story(0, {}, {}), Story(0, {}, {})>>
=============================================================================
