---------------------------- MODULE MCMqttClient ----------------------------
(* Instances of MqttClient for TLC.  A client that is down and not in use  *)
(* is as good as a new one, so a few identities stand for any number.      *)
EXTENDS MqttClient
=============================================================================
