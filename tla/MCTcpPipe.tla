----------------------------- MODULE MCTcpPipe -----------------------------
(* TcpPipe for TLC. *)
EXTENDS TcpPipe

\* Destinations that take as many bytes as they are given: a raw connection,
\* and shadowsocks with a stream cipher and an address to send, whose IV goes
\* out with the address.
PlainDestinations ==
    {[encrypted |-> FALSE, addr |-> 0, first |-> 0, chunk |-> 0, max |-> 3],
     [encrypted |-> TRUE, addr |-> 2, first |-> 1, chunk |-> 0, max |-> 3]}

\* Destinations whose encryption adds bytes: shadowsocks with AEAD, which does
\* so for every chunk and whose largest chunk is one byte smaller than the
\* read buffer, and the way back to a client with a stream cipher, whose IV
\* goes out with the first data.
GrowingDestinations ==
    {[encrypted |-> TRUE, addr |-> 0, first |-> 2, chunk |-> 2, max |-> 2],
     [encrypted |-> TRUE, addr |-> 2, first |-> 2, chunk |-> 2, max |-> 2],
     [encrypted |-> TRUE, addr |-> 0, first |-> 1, chunk |-> 0, max |-> 3]}

AllDestinations == PlainDestinations \cup GrowingDestinations
=============================================================================
