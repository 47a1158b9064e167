---------------------------- MODULE MCMqttClient ----------------------------
(* Instances of MqttClient for model checking.                             *)
EXTENDS MqttClient, TLC

CONSTANTS drain, heartbeat, closer

PublisherSymmetry == Permutations({drain, heartbeat})
=============================================================================
