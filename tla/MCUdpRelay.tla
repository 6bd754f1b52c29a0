----------------------------- MODULE MCUdpRelay -----------------------------
(* UdpRelay for TLC: the configurations give the constants their values. *)
EXTENDS UdpRelay
=============================================================================
