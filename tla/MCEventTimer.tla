---------------------------- MODULE MCEventTimer ----------------------------
(* EventTimer for TLC. *)
EXTENDS EventTimer
=============================================================================
