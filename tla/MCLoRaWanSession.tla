-------------------------- MODULE MCLoRaWanSession --------------------------
(* Small instances of LoRaWanSession. *)
EXTENDS LoRaWanSession

CONSTANTS k1, k2
=============================================================================
