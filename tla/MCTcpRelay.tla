---------------------------- MODULE MCTcpRelay ----------------------------
(* TcpRelay for TLC: the configurations give the constants their values. *)
EXTENDS TcpRelay
=============================================================================
