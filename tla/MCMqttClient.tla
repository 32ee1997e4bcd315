---------------------------- MODULE MCMqttClient ----------------------------
(***************************************************************************)
(* TLC instances of MqttClient; the threads are model values.  MqttClient  *)
(* .cfg makes two connections, which is what one session being taken for   *)
(* another needs; MqttRequests.cfg makes one, with two further events.     *)
(***************************************************************************)
EXTENDS MqttClient
=============================================================================
