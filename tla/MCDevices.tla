----------------------------- MODULE MCDevices ------------------------------
(* Delays for TLC: the longest there is, and a negative one. *)
EXTENDS Devices

MCDelays == {1, -1}
=============================================================================
