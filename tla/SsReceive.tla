----------------------------- MODULE SsReceive -----------------------------
(***************************************************************************)
(* The receiving side of a shadowsocks connection in xs-server, from the   *)
(* first ciphertext to the bytes handed to the destination: decryption in  *)
(* chunks that TCP may split anywhere (tcpShadowsocksConnRead), the        *)
(* address in front of the data, which is parsed, written out again        *)
(* (socks5AddrInit) and skipped by the length of that second form          *)
(* (tcpClientOnRead, "Rewind rbuffer"), and the data that came with it,    *)
(* which waits for the connect to be done.                                 *)
(*                                                                         *)
(* A plaintext byte is its distance from the end of the address as it was  *)
(* sent: 1, 2, ... is the data, 0, -1, ... the address.  Each chunk        *)
(* arrives in two parts, which stand for any way to split it: until the    *)
(* second has come the server cannot decrypt a byte of it.  What name      *)
(* resolution, the ACL, connect() and write() say is the environment's     *)
(* choice.                                                                 *)
(***************************************************************************)
EXTENDS Integers, Sequences

CONSTANTS
    Addresses,  \* destinations the client may name
    MaxData,    \* bound: data bytes the client sends
    MaxChunk,   \* largest number of data bytes in a chunk
    V4Len,      \* length of an IPv4 address (4)
    V6Len       \* length of an IPv6 address (16)

ASSUME ReceiveAssumption ==
    /\ \A a \in Addresses :
        /\ a.atyp \in {"ipv4", "ipv6", "domain"}
        /\ a.text \in {"dotted", "colons", "name"}
        /\ a.len \in Nat \ {0}
    /\ MaxData \in Nat
    /\ MaxChunk \in Nat \ {0}
    /\ V4Len \in Nat \ {0}
    /\ V6Len \in Nat \ {0}

VARIABLES
    addr,     \* the address the client sends
    sent,     \* data bytes the client has sent
    whole,    \* plaintext of the chunks that have arrived and are not read
    part,     \* plaintext of the chunk of which only a part has arrived
    fresh,    \* bytes have arrived since the last read
    state,    \* state of the connection: "init", "handshake" or "stream"
    remote,   \* "none", "connecting" or "connected"
    rbuf,     \* rbuf up to rbuf_off, while the remote is being connected
    out,      \* bytes handed to the destination
    conn      \* "open", or why the session was closed

vars == <<addr, sent, whole, part, fresh, state, remote, rbuf, out, conn>>

-----------------------------------------------------------------------------
(* socks5.c. *)

\* Lengths on the wire: a domain carries its length, all carry a port.
FormLen(atyp, len) ==
    1 + (IF atyp = "ipv4" THEN V4Len ELSE IF atyp = "ipv6" THEN V6Len ELSE 1 + len) + 2

\* socks5AddrParse: the length of the address as it was sent.
SentLen(a) == FormLen(a.atyp, a.len)

\* socks5HostParse looks at the text of the host only: a colon makes it an
\* IPv6 address, digits and dots alone an IPv4 address.
socks5HostParse(text) ==
    IF text = "colons" THEN "ipv6" ELSE IF text = "dotted" THEN "ipv4" ELSE "domain"

\* Defect: the length byte of a domain is not counted.
KeptLenNoCount(a) ==
    IF socks5HostParse(a.text) = "domain" THEN 1 + a.len + 2
    ELSE FormLen(socks5HostParse(a.text), a.len)

\* socks5AddrInit: the length of the address as addrbuf_dest keeps it.
KeptLen(a) == FormLen(socks5HostParse(a.text), a.len)

-----------------------------------------------------------------------------
TypeOK ==
    /\ addr \in Addresses
    /\ sent \in 0..MaxData
    /\ fresh \in BOOLEAN
    /\ state \in {"init", "handshake", "stream"}
    /\ remote \in {"none", "connecting", "connected"}
    /\ conn \in {"open", "split", "refused", "connect", "leftover", "cut"}
    /\ \A b \in {whole, part, rbuf, out} :
        /\ Len(b) \in Nat
        /\ \A i \in 1..Len(b) : b[i] \in Int

Init ==
    /\ addr \in Addresses
    /\ sent = 0
    /\ whole = <<>>
    /\ part = <<>>
    /\ fresh = FALSE
    /\ state = "init"
    /\ remote = "none"
    /\ rbuf = <<>>
    /\ out = <<>>
    /\ conn = "open"

-----------------------------------------------------------------------------
(* The client, and TCP between it and the server. *)

Bytes(lo, hi) == [i \in 1..(hi - lo + 1) |-> lo + i - 1]

\* The client has sent nothing yet.
First == sent = 0 /\ whole = <<>> /\ part = <<>> /\ state = "init"

\* The client encrypts a chunk.  xs-local sends the address as a chunk of its
\* own; other clients put the first data with it.
PeerChunk ==
    /\ conn = "open"
    /\ part = <<>>
    /\ \E n \in 0..MaxChunk :
        /\ sent + n <= MaxData
        /\ n > 0 \/ First
        /\ part' = Bytes(IF First THEN 1 - SentLen(addr) ELSE sent + 1, sent + n)
        /\ sent' = sent + n
    /\ fresh' = TRUE
    /\ UNCHANGED <<addr, whole, state, remote, rbuf, out, conn>>

\* The rest of the chunk arrives.
PeerRest ==
    /\ part # <<>>
    /\ whole' = whole \o part
    /\ part' = <<>>
    /\ fresh' = TRUE
    /\ UNCHANGED <<addr, sent, state, remote, rbuf, out, conn>>

-----------------------------------------------------------------------------
(* tcpShadowsocksConnRead. *)

\* The client's read event is registered unless a connect is going on.
Readable == conn = "open" /\ fresh /\ remote # "connecting"

\* aead_decrypt has not one complete chunk and asks for more, which
\* tcpShadowsocksConnRead takes for an error: FIRE_ERROR, FIRE_CLOSE.
ReadNeedsMore ==
    /\ Readable
    /\ whole = <<>>
    /\ state' = IF state = "handshake" THEN "stream" ELSE state
    /\ conn' = "split"
    /\ UNCHANGED <<addr, sent, whole, part, fresh, remote, rbuf, out>>

\* tcpClientOnRead, "Rewind rbuffer": what is left behind the address.
Rewound(plain) == SubSeq(plain, KeptLen(addr) + 1, Len(plain))

\* The first plaintext holds the address, and the connect is started.  (The
\* address comes with the first chunk, so it is never cut off here.)
ReadAddress ==
    /\ Readable
    /\ whole # <<>>
    /\ state = "init"
    /\ state' = "handshake"
    /\ remote' = "connecting"
    /\ rbuf' = Rewound(whole)
    /\ whole' = <<>>
    /\ fresh' = FALSE
    /\ UNCHANGED <<addr, sent, part, out, conn>>

\* The address cannot be parsed (FIRE_CLOSE, in the state it was), or it is
\* blocked by the ACL or the connect cannot be started, and tcpClientOnRead
\* frees the session with what it has read.
AddressRefused ==
    /\ Readable
    /\ whole # <<>>
    /\ state = "init"
    /\ state' \in {"init", "handshake"}
    /\ whole' = <<>>
    /\ fresh' = FALSE
    /\ conn' = "refused"
    /\ UNCHANGED <<addr, sent, part, remote, rbuf, out>>

\* Later reads are piped to the remote, here with writes that take it all.
ReadStream ==
    /\ Readable
    /\ whole # <<>>
    /\ state # "init"
    /\ state' = "stream"
    /\ out' = out \o whole
    /\ whole' = <<>>
    /\ fresh' = FALSE
    /\ UNCHANGED <<addr, sent, part, remote, rbuf, conn>>

Connecting == conn = "open" /\ remote = "connecting"

\* Defect: the data that came with the address is forgotten.
ConnectedForgets ==
    /\ Connecting
    /\ remote' = "connected" /\ rbuf' = <<>> /\ out' = out
    /\ UNCHANGED <<addr, sent, whole, part, fresh, state, conn>>

\* tcpRemoteOnConnect: the left data goes out first, then both sides are read.
Connected ==
    /\ Connecting
    /\ remote' = "connected"
    /\ out' = out \o rbuf
    /\ rbuf' = <<>>
    /\ UNCHANGED <<addr, sent, whole, part, fresh, state, conn>>

\* tcpRemoteOnConnect with TCP_ERR, or the remote's timer: FIRE_CLOSE.
ConnectFails ==
    /\ Connecting
    /\ conn' = "connect"
    /\ UNCHANGED <<addr, sent, whole, part, fresh, state, remote, rbuf, out>>

\* The left data is not written, or not all of it: the session is freed with
\* the part of the data that went out.
LeftoverFails ==
    /\ Connecting
    /\ \E n \in 0..Len(rbuf) - 1 :
        /\ out' = out \o SubSeq(rbuf, 1, n)
        /\ rbuf' = SubSeq(rbuf, n + 1, Len(rbuf))
    /\ conn' = "leftover"
    /\ UNCHANGED <<addr, sent, whole, part, fresh, state, remote>>

\* A read or decryption error, a failed write, a timeout, or the other side
\* ends the session.
Cut ==
    /\ conn = "open"
    /\ conn' = "cut"
    /\ UNCHANGED <<addr, sent, whole, part, fresh, state, remote, rbuf, out>>

Receive == ReadNeedsMore \/ ReadAddress \/ AddressRefused \/ ReadStream

ConnectEnds == Connected \/ ConnectFails \/ LeftoverFails

Next == PeerChunk \/ PeerRest \/ Receive \/ ConnectEnds \/ Cut

Spec == Init /\ [][Next]_vars

\* A chunk that has been sent arrives; the loop serves a readable socket (libev:
\* on ae the client's write event may stay in the descriptor's clientData and
\* be run instead, see EventLoop); and a connect ends in one way or another, at
\* the latest by the remote's timer.
FairSpec == Spec /\ WF_vars(PeerRest) /\ WF_vars(Receive) /\ WF_vars(ConnectEnds)

-----------------------------------------------------------------------------
(* Properties. *)

\* "Rewind rbuffer" (server.c): the destination gets exactly the data behind
\* the address.  What came with it goes out before what is read later, and
\* none of either is lost: while the session is open every data byte is on the
\* wire, waits for the connect, or has been handed on; and wherever the session
\* ends, also in a short write of the left data, what has been handed on is the
\* beginning of the data.
NothingLost ==
    /\ out = Bytes(1, Len(out))
    /\ conn = "open" /\ state # "init" =>
        out \o rbuf \o whole \o part = Bytes(1, sent)

\* The text of every host the clients name has the form its type says.
PlainForm == \A a \in Addresses : socks5HostParse(a.text) = a.atyp

\* With libev, all data that is sent is handed on, unless the session is closed:
\* an open session never sits on data, neither on what waits for the connect
\* nor on chunks that arrived while it was going on.
DataArrives ==
    \A k \in 1..MaxData : sent >= k ~> (Len(out) >= k \/ conn # "open")

\* "fully compatible with the shadowsocks protocol" (README): a stream that
\* TCP has split inside a chunk is received all the same.
SplitTolerated == conn # "split"
=============================================================================
