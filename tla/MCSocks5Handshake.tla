------------------------- MODULE MCSocks5Handshake -------------------------
(* Socks5Handshake for TLC. *)
EXTENDS Socks5Handshake
=============================================================================
