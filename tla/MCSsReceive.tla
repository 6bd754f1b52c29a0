---------------------------- MODULE MCSsReceive ----------------------------
(* SsReceive for TLC. *)
EXTENDS SsReceive

\* Hosts whose text has the form their type says.
PlainAddresses ==
    {[atyp |-> "ipv4", text |-> "dotted", len |-> 2],
     [atyp |-> "ipv6", text |-> "colons", len |-> 3],
     [atyp |-> "domain", text |-> "name", len |-> 1],
     [atyp |-> "domain", text |-> "name", len |-> 4]}

\* A client that passes an IPv4 address in the form of a domain name.
DottedDomain == {[atyp |-> "domain", text |-> "dotted", len |-> 4]}
=============================================================================
