---------------------------- MODULE MCMqttBridge ----------------------------
(* MqttBridge on small instances.                                          *)
EXTENDS MqttBridge
=============================================================================
