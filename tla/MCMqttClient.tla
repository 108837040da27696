---------------------------- MODULE MCMqttClient ----------------------------
(* Two topics are enough for one to be added or removed while the other is *)
(* resubscribed.                                                           *)
EXTENDS MqttClient
CONSTANTS cmd, safety
MCTopics == {cmd, safety}
=============================================================================
