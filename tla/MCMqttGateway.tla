--------------------------- MODULE MCMqttGateway ---------------------------
(* A small instance of MqttGateway. *)
EXTENDS MqttGateway

CONSTANTS c1, c2
=============================================================================
